---- MODULE Spec2Model ----
(***************************************************************************)
(* MindCache: the Node.js API (controllers, error handler), the RustBridge *)
(* FFI wrapper and the JavaScript SDK, over the storage core.              *)
(*                                                                         *)
(* The storage core (the native library behind mindcache_save,             *)
(* mindcache_recall, mindcache_decay) is not part of src/; its operations  *)
(* (CoreSave, CoreRecall, CoreDecay and their helpers) follow spec.md      *)
(* sections 3, 4.4, 4.5 and 4.6.  Everything else follows the JavaScript.  *)
(*                                                                         *)
(* Units: time in hours, importance in thousandths (500 = 0.5), score in   *)
(* millionths.  touch(id) is batched in memory and flushed on a timer      *)
(* (spec.md 4.4), so a recall leaves the stored access metadata as it is;  *)
(* the batch and its flush are the steps TouchBatch and TouchFlush.        *)
(***************************************************************************)
EXTENDS Integers, Sequences, FiniteSets, TLC

\* ---------------------------------------------------------------- bounds
MaxMem == 2
MaxTime == 2
MaxWrites == 3
MaxAccess == 2
MaxHandles == 3

\* ------------------------------------------------------ program constants
DefaultTtlHours == 720
DefaultMaxPerUser == 10000
DefaultLimit == 50
MaxLimit == 1000
SessionScanLimit == 10000
SessionMemoriesLimit == 10000
ExportLimit == 100000
DefaultImportance == 500
CoreDefaultImportance == 500
SdkDefaultRetries == 3

\* ----------------------------------------------------------------- inputs
Users == {"u1", "u2"}
SessionIds == {"s1", "s2"}
NoUser == "null"
NoSession == "null"
\* the names a session is created with, and no name
SessionNames == {"n1"}
NoName == "null"
\* no query; a query is otherwise a token, and the content of memory i is
\* taken to hold common words and one token found in no other memory, i
NoQuery == 0
Absent == -1

\* (importance, ttlHours) of a save request: both omitted, importance 0,
\* importance 0.9 with a ttl of one hour
SaveOptionInputs == {<<Absent, Absent>>, <<0, Absent>>, <<900, 1>>}
\* (userId, sessionId) of a save request: also empty and whitespace-only ids
SaveIdInputs ==
  (Users \X SessionIds) \cup {<<"", "s1">>, <<"u1", "">>, <<"u1", " ">>}
\* the confirm query parameter of DELETE /api/sessions/:userId/:sessionId
ConfirmInputs == {"true", "absent", "false", "TRUE"}

\* the limit and offset of GET .../memories: not given, 0 and small numbers
PageLimitInputs == {Absent, 0, 1, 2}
PageOffsetInputs == {Absent, 0, 1, 2, 3}

\* the batches of POST /api/memory/bulk: the <<userId, sessionId>> of each item
MaxBatch == 3
BulkInputs ==
  UNION {[1..n -> SaveIdInputs] : n \in 0..MaxBatch}

\* (limit, minImportance, query) of a recall request: all omitted, limit 1, a
\* limit beyond the validator's maximum, minImportance 0.6, the token of the
\* first memory as query
RecallOptionInputs ==
  {<<Absent, Absent, NoQuery>>, <<1, Absent, NoQuery>>, <<5000, Absent, NoQuery>>,
   <<Absent, 600, NoQuery>>, <<Absent, Absent, 1>>}
\* the forms the core's answer to a summarize of an empty session can take
\* at the FFI: a null result, or an error whose message names the cause
SummaryEmptyForms == {"null", "message"}
\* constructor config (default_memory_ttl_hours, max_memories_per_user);
\* 0 = key not given
ConfigInputs == {<<0, 0>>, <<2, 1>>}
\* the config object given to the constructor: default_memory_ttl_hours and
\* max_memories_per_user (0 = key not given, a negative value is out of
\* range) and whether it carries a key outside the documented set
Supplied(ttl, cap, unknownKey) == [ttl |-> ttl, cap |-> cap, unknownKey |-> unknownKey]
SuppliedInputs == {Supplied(t, c, k) : t \in {0, 2, -5}, c \in {0, 1}, k \in BOOLEAN}
\* how the core treats a recall that carries no user id
NullUserModes == {"reject", "unscoped"}

VARIABLES
  config,        \* RustBridge.config (the two keys the model uses)
  isInitialized, \* RustBridge.isInitialized
  cachePtr,      \* RustBridge.cachePtr: "null" or "handle"
  store,         \* the core's records, index = memory id
  coreCfg,       \* the configuration the core handle was created with
  now,           \* wall clock, hours
  nullUserMode,  \* core build: recall without user id is rejected / unscoped
  lastResp,      \* the last handler, the ids of its request when it is a
                 \* save, and the status and code of its response
  sdk,           \* MindCacheSDK.request in flight (save through the SDK)
  core,          \* the core's write path and touch batch: what is durable
                 \* (segment, manifest, index snapshot) and what is in memory
  cli,           \* the command the CLI runs, the error it ended with and the
                 \* exit code of the process
  life           \* the server process and the core handles: the config given
                 \* to the constructor, the handles made and destroyed, the
                 \* handle cachePtr holds, the core calls made without one
                 \* (indexes, the put in progress, batched touches)

vars == <<config, isInitialized, cachePtr, coreCfg, store, now, nullUserMode,
          lastResp, sdk, core, cli, life>>

\* ------------------------------------------------------------ small helpers
Min(a, b) == IF a < b THEN a ELSE b

\* JavaScript `x || d` on a number: 0 and undefined are falsy
OrDefault(x, d) == IF x = Absent \/ x = 0 THEN d ELSE x

\* RustBridge.constructor: the two keys of this.config the model needs
BridgeConfig(ttl, cap) ==
  [default_memory_ttl_hours |-> OrDefault(ttl, DefaultTtlHours),
   max_memories_per_user |-> OrDefault(cap, DefaultMaxPerUser)]

\* ---------------------------------------------------------- core: scoring
\* recency_decay(age) = exp(-age / 14 days), in thousandths; for ages up to
\* 10 hours floor(1000 * exp(-h / 336)) = 1000 - 3h
RecencyPermille(age) == IF age <= 0 THEN 1000 ELSE 1000 - 3 * age

\* access_weight(n) = 1 - 1/(1+n), in thousandths
AccessPermille(n) == 1000 - (1000 \div (1 + n))

\* score = 0.55 importance + 0.25 recency + 0.15 text (0, no text filter)
\*       + 0.05 access_weight, in millionths
Score(m, t) ==
  550 * m.importance + 250 * RecencyPermille(t - m.created_at)
    + 50 * AccessPermille(m.access_count)

\* recall order: score descending, then created_at descending, then id ascending
Before(st, t, i, j) ==
  LET si == Score(st[i], t)
      sj == Score(st[j], t)
  IN \/ si > sj
     \/ si = sj /\ st[i].created_at > st[j].created_at
     \/ si = sj /\ st[i].created_at = st[j].created_at /\ i < j

\* the ids of S as a sequence in recall order
Ranked(st, t, S) ==
  [k \in 1..Cardinality(S) |->
     CHOOSE i \in S : Cardinality({j \in S : Before(st, t, j, i)}) = k - 1]

Take(q, n) == SubSeq(q, 1, Min(Len(q), n))

SeqToSet(q) == {q[k] : k \in DOMAIN q}

LiveIds(st) == {i \in DOMAIN st : st[i].live}
LiveOfUser(st, u) == {i \in LiveIds(st) : st[i].user = u}
LiveOfSession(st, s) == {i \in LiveIds(st) : st[i].session = s}

Tombstone(st, S) ==
  [i \in DOMAIN st |-> IF i \in S THEN [st[i] EXCEPT !.live = FALSE] ELSE st[i]]

\* ------------------------------------------------------------- core: save
\* put: InvalidArgument for an empty user/session, a session id owned by
\* another user is rejected (I3), eviction of the lowest-score record of the
\* user before insertion when the cap would be exceeded, then append with
\* created_at = now and expires_at from the default TTL.  The FFI signature
\* carries no importance and no ttl, so the core applies its defaults.
CoreSave(st, cfg, u, s, t) ==
  LET foreign == {i \in LiveOfSession(st, s) : st[i].user # u}
      mine == LiveOfUser(st, u)
      ranked == Ranked(st, t, mine)
      evict == IF Cardinality(mine) >= cfg.max_memories_per_user
               THEN {ranked[Len(ranked)]} ELSE {}
      rec == [user |-> u, session |-> s,
              importance |-> CoreDefaultImportance,
              created_at |-> t,
              expires_at |-> t + cfg.default_memory_ttl_hours,
              last_accessed_at |-> t, access_count |-> 0, live |-> TRUE]
  IN IF u = NoUser \/ u = "" \/ s = NoSession \/ s = "" \/ foreign # {}
     THEN [ok |-> FALSE, st |-> st, id |-> 0]
     ELSE [ok |-> TRUE, st |-> Append(Tombstone(st, evict), rec),
           id |-> Len(st) + 1]

\* ----------------------------------------------------------- core: recall
\* recall(filter): seed set by user (and session), full-text filter (the
\* memories holding the query's token; their text relevance is equal, so it
\* does not change the order), rank, trim to limit.  A
\* filter without user_id is an InvalidArgument in spec.md; the session
\* controller relies on a core that answers it across users, so both builds
\* are modelled (mode).  The FFI signature carries user, query, session and
\* limit only.
CoreRecall(st, mode, u, s, q, limit, t) ==
  LET cand == {i \in LiveIds(st) :
                 /\ (u = NoUser \/ st[i].user = u)
                 /\ (s = NoSession \/ st[i].session = s)
                 /\ (q = NoQuery \/ i = q)}
  IN IF u = NoUser /\ mode = "reject"
     THEN [ok |-> FALSE, ids |-> <<>>]
     ELSE [ok |-> TRUE, ids |-> Take(Ranked(st, t, cand), limit)]

\* ------------------------------------------------------------ core: decay
ImportanceThreshold == 300
SweepAgeHours == 168

\* exp(-age / 30 days) in thousandths, floor(1000 * exp(-h / 720)), h = 0..12
AttenTable == <<1000, 998, 997, 995, 994, 993, 991, 990, 988, 987, 986, 984, 983>>
AttenPermille(age) ==
  IF age <= 0 THEN 1000
  ELSE IF age + 1 <= Len(AttenTable) THEN AttenTable[age + 1]
  ELSE AttenTable[Len(AttenTable)]

\* 10 buckets of width 0.1
Bucket(imp) == Min(imp \div 100, 9)

Attenuated(m, t) == (m.importance * AttenPermille(t - m.created_at)) \div 1000

NoDecayStats == [scanned |-> 0, expired |-> 0, attenuated |-> 0, evicted |-> 0]

\* one sweep: TTL expiry, attenuation (rewrite only when the bucket changes),
\* low-importance sweep, per-user cap
CoreDecay(st, cfg, t) ==
  LET scanned == LiveIds(st)
      expired == {i \in scanned : st[i].expires_at <= t}
      st1 == Tombstone(st, expired)
      rewritten == {i \in LiveIds(st1) :
                      Bucket(Attenuated(st1[i], t)) # Bucket(st1[i].importance)}
      st2 == [i \in DOMAIN st1 |->
                IF i \in rewritten
                THEN [st1[i] EXCEPT !.importance = Attenuated(st1[i], t)]
                ELSE st1[i]]
      swept == {i \in LiveIds(st2) :
                  /\ st2[i].importance < ImportanceThreshold
                  /\ st2[i].access_count = 0
                  /\ t - st2[i].created_at > SweepAgeHours}
      st3 == Tombstone(st2, swept)
      overCap == {i \in LiveIds(st3) :
                    LET mine == LiveOfUser(st3, st3[i].user)
                    IN Cardinality({j \in mine : Before(st3, t, j, i)})
                         >= cfg.max_memories_per_user}
      st4 == Tombstone(st3, overCap)
  IN [st |-> st4,
      stats |-> [scanned |-> Cardinality(scanned),
                 expired |-> Cardinality(expired),
                 attenuated |-> Cardinality(rewritten),
                 evicted |-> Cardinality(swept) + Cardinality(overCap)]]

\* ------------------------------------------------- core: durable write path
\* ids are records; what the core keeps of them on disk (segment, manifest,
\* the two index snapshots) and in memory (user index, session index, the
\* put in progress, the saves acknowledged, the batched touches)
CoreEmpty ==
  [segment |-> {}, manifest |-> {}, snapUser |-> {}, snapSession |-> {},
   byUser |-> {}, bySession |-> {}, writing |-> 0, acked |-> {}, pending |-> {},
   replayed |-> {}]

\* a startup that loads the snapshot and replays nothing
SnapshotOnly(snapshot, manifest, segment) == snapshot

\* startup: load the newest index snapshot, replay the manifest entries of
\* records that made it to the segment, reconciled by record id
Replayed(snapshot, manifest, segment) == snapshot \cup (manifest \cap segment)

CoreStartup(c) ==
  [c EXCEPT !.byUser = Replayed(c.snapUser, c.manifest, c.segment),
            !.bySession = Replayed(c.snapSession, c.manifest, c.segment),
            !.writing = 0, !.pending = {},
            !.replayed = (c.manifest \cap c.segment)
                           \ (c.snapUser \cap c.snapSession)]

\* a flush that stamps the touched records with the epoch, not the time
TouchStampsEpoch(st, P, t) ==
  [i \in DOMAIN st |->
     IF i \in P /\ st[i].live
     THEN [st[i] EXCEPT !.access_count = @ + 1, !.last_accessed_at = 0]
     ELSE st[i]]

\* the flush of the batched touches P at time t: access_count and
\* last_accessed_at of the touched live records advance
TouchFlushed(st, P, t) ==
  [i \in DOMAIN st |->
     IF i \in P /\ st[i].live
     THEN [st[i] EXCEPT !.access_count = @ + 1, !.last_accessed_at = t]
     ELSE st[i]]

\* the process is killed: what is in memory is gone, what is fsynced stays
CoreKilled(c) ==
  [c EXCEPT !.byUser = {}, !.bySession = {}, !.writing = 0, !.pending = {}]

\* -------------------------------------------------------- core: summarize
\* summarize(session_id): SessionEmpty when the session has no memory, else
\* the digest of its memories (memory_count is what the model keeps of it)
CoreSummarize(st, s, form) ==
  IF LiveOfSession(st, s) = {}
  THEN [answer |-> form, memory_count |-> 0]
  ELSE [answer |-> "summary", memory_count |-> Cardinality(LiveOfSession(st, s))]

\* ----------------------------------------------------------------- bridge
\* a guard that looks at the flag alone
FlagOnly(init, ptr) == init

\* RustBridge.ensureInitialized
EnsureInitialized(init, ptr) == init /\ ptr # "null"

\* a bridge that saves every memory under the first user
SaveAsFirstUser(st, cfg, init, ptr, m, t) ==
  IF ~(init /\ ptr # "null")
  THEN [ok |-> FALSE, st |-> st, id |-> 0]
  ELSE CoreSave(st, cfg, "u1", m.sessionId, t)

\* RustBridge.saveMemory: importance and ttlHours are accepted and not passed
\* to mindcache_save; a null result is thrown as an error
BridgeSaveMemory(st, cfg, init, ptr, m, t) ==
  IF ~EnsureInitialized(init, ptr)
  THEN [ok |-> FALSE, st |-> st, id |-> 0]
  ELSE CoreSave(st, cfg, m.userId, m.sessionId, t)

\* a bridge that leaves the query behind as it leaves minImportance
RecallArgsNoQuery(f) ==
  [userId |-> f.userId, query |-> NoQuery, sessionId |-> f.sessionId,
   limit |-> IF f.limit = Absent THEN DefaultLimit ELSE f.limit]

\* the arguments RustBridge.recallMemories hands to mindcache_recall: user,
\* query, session and limit (default 50 when undefined); minImportance stays
\* behind
RecallArgs(f) ==
  [userId |-> f.userId, query |-> f.query, sessionId |-> f.sessionId,
   limit |-> IF f.limit = Absent THEN DefaultLimit ELSE f.limit]

\* RustBridge.recallMemories: a null result is an empty list
BridgeRecallMemories(st, init, ptr, mode, f, t) ==
  IF ~EnsureInitialized(init, ptr)
  THEN [ok |-> FALSE, ids |-> <<>>, log |-> <<>>]
  ELSE LET a == RecallArgs(f)
           r == CoreRecall(st, mode, a.userId, a.sessionId, a.query, a.limit, t)
       IN [ok |-> TRUE, ids |-> r.ids, log |-> <<a>>]

\* a bridge whose decay reports the sweep and does not keep its result
DecayNotKept(st, cfg, init, ptr, t) ==
  IF ~(init /\ ptr # "null")
  THEN [ok |-> FALSE, st |-> st, stats |-> NoDecayStats]
  ELSE [ok |-> TRUE, st |-> st, stats |-> CoreDecay(st, cfg, t).stats]

\* RustBridge.runDecay
BridgeRunDecay(st, cfg, init, ptr, t) ==
  IF ~EnsureInitialized(init, ptr)
  THEN [ok |-> FALSE, st |-> st, stats |-> NoDecayStats]
  ELSE LET r == CoreDecay(st, cfg, t)
       IN [ok |-> TRUE, st |-> r.st, stats |-> r.stats]

NoSessionInfo ==
  [id |-> NoSession, userId |-> NoUser, name |-> NoName, createdAt |-> Absent,
   lastActive |-> Absent, memoryCount |-> 0]

\* RustBridge.summarizeSession: a null result is the error 'No summary
\* generated'; every error is rethrown as 'Failed to generate summary: ' +
\* its message (error names what the message contains)
BridgeSummarizeSession(st, init, ptr, sessionId, form) ==
  LET Answered(r) ==
        IF r.answer = "summary"
        THEN [ok |-> TRUE, error |-> "", memory_count |-> r.memory_count]
        ELSE IF r.answer = "null"
        THEN [ok |-> FALSE, error |-> "No summary generated", memory_count |-> 0]
        ELSE [ok |-> FALSE, error |-> "No memories found", memory_count |-> 0]
  IN IF ~EnsureInitialized(init, ptr)
     THEN [ok |-> FALSE, error |-> "Rust bridge not initialized", memory_count |-> 0]
     ELSE Answered(CoreSummarize(st, sessionId, form))

\* RustBridge.generateSessionId: 'session_' + Date.now() + '_' + random, an
\* id no memory was saved under
FreshSessionIds(st) ==
  {s \in SessionIds : \A i \in DOMAIN st : st[i].session # s}

\* RustBridge.createSession: generates an id and returns it; name and
\* metadata are not used and nothing is sent to the core
BridgeCreateSession(init, ptr, userId, name, generated) ==
  [ok |-> EnsureInitialized(init, ptr), sessionId |-> generated]

\* RustBridge.getSession: a recall by session id alone (limit 1) finds the
\* owner, a second recall of the owner's session (limit 10000) gives the
\* count; createdAt is the last and lastActive the first returned timestamp
BridgeGetSession(st, init, ptr, mode, sessionId, t) ==
  LET Recall(userId, limit) ==
        BridgeRecallMemories(st, init, ptr, mode,
          [userId |-> userId, query |-> NoQuery, sessionId |-> sessionId,
           limit |-> limit, minImportance |-> Absent], t)
      Session(first, all) ==
        [ok |-> TRUE, found |-> TRUE, log |-> first.log \o all.log,
         session |->
           [id |-> sessionId, userId |-> st[first.ids[1]].user, name |-> NoName,
            createdAt |-> IF Len(all.ids) = 0 THEN Absent
                          ELSE st[all.ids[Len(all.ids)]].created_at,
            lastActive |-> IF Len(all.ids) = 0 THEN Absent
                           ELSE st[all.ids[1]].created_at,
            memoryCount |-> Len(all.ids)]]
      Found(first) ==
        IF Len(first.ids) = 0
        THEN [ok |-> TRUE, found |-> FALSE, log |-> first.log,
              session |-> NoSessionInfo]
        ELSE Session(first, Recall(st[first.ids[1]].user, SessionScanLimit))
  IN IF ~EnsureInitialized(init, ptr)
     THEN [ok |-> FALSE, found |-> FALSE, log |-> <<>>, session |-> NoSessionInfo]
     ELSE Found(Recall(NoUser, 1))

\* RustBridge.deleteSession (placeholder): looks the session up and reports
\* its memory count as deleted; nothing is sent to the core to delete
BridgeDeleteSession(st, init, ptr, mode, sessionId, t) ==
  LET g == BridgeGetSession(st, init, ptr, mode, sessionId, t)
  IN [ok |-> g.ok /\ g.found, st |-> st, log |-> g.log,
      memoriesDeleted |-> g.session.memoryCount]

\* RustBridge.updateSession (placeholder): looks the session up and returns
\* it merged with the updates; nothing is stored
BridgeUpdateSession(st, init, ptr, mode, sessionId, t) ==
  LET g == BridgeGetSession(st, init, ptr, mode, sessionId, t)
  IN [ok |-> g.ok /\ g.found, st |-> st, log |-> g.log, session |-> g.session]

\* a grouping that opens an entry for every memory of the recall result
SessionOfEach(st, ids) == [k \in DOMAIN ids |-> st[ids[k]].session]

\* the distinct session ids of a recall result, in order of first appearance
RECURSIVE SessionOrder(_, _)
SessionOrder(st, ids) ==
  IF ids = <<>> THEN <<>>
  ELSE LET front == SessionOrder(st, SubSeq(ids, 1, Len(ids) - 1))
           s == st[ids[Len(ids)]].session
       IN IF \E k \in DOMAIN front : front[k] = s THEN front
          ELSE Append(front, s)

SetMin(S) == CHOOSE x \in S : \A y \in S : x <= y
SetMax(S) == CHOOSE x \in S : \A y \in S : x >= y

\* RustBridge.getUserSessions: one recall of the user (limit 10000), grouped
\* by session id; createdAt/lastActive are the min/max member timestamp
BridgeGetUserSessions(st, init, ptr, mode, userId, t) ==
  LET r == BridgeRecallMemories(st, init, ptr, mode,
             [userId |-> userId, query |-> NoQuery, sessionId |-> NoSession,
              limit |-> SessionScanLimit, minImportance |-> Absent], t)
      order == SessionOrder(st, r.ids)
      members(s) == {i \in SeqToSet(r.ids) : st[i].session = s}
  IN [ok |-> r.ok, log |-> r.log,
      sessions |->
        [k \in DOMAIN order |->
           [id |-> order[k],
            userId |-> st[CHOOSE i \in members(order[k]) : TRUE].user,
            name |-> NoName,
            createdAt |-> SetMin({st[i].created_at : i \in members(order[k])}),
            lastActive |-> SetMax({st[i].created_at : i \in members(order[k])}),
            memoryCount |-> Cardinality(members(order[k]))]]]

\* RustBridge.exportUserMemories: one recall of the user, limit 100000
BridgeExportUserMemories(st, init, ptr, mode, userId, t) ==
  BridgeRecallMemories(st, init, ptr, mode,
    [userId |-> userId, query |-> NoQuery, sessionId |-> NoSession, limit |-> ExportLimit,
     minImportance |-> Absent], t)

\* ------------------------------------------------------------- HTTP layer
\* errorHandler: the status of an error created by createError(code, status)
ErrorStatus(code, status) ==
  IF code = "VALIDATION_ERROR" THEN 400
  ELSE IF code = "UNAUTHORIZED" THEN 401
  ELSE IF code = "FORBIDDEN" THEN 403
  ELSE IF code = "NOT_FOUND" THEN 404
  ELSE IF code = "CONFLICT" THEN 409
  ELSE IF code = "RATE_LIMIT_EXCEEDED" THEN 429
  ELSE IF code = "RUST_BRIDGE_ERROR" THEN 500
  ELSE status

\* what a handler does: the store it leaves, its response (status, code and
\* the data fields the handlers fill in) and the recall calls it sent to the
\* core (log)
Result(st) ==
  [st |-> st, status |-> 200, code |-> "", log |-> <<>>, id |-> 0,
   ids |-> <<>>, limit |-> Absent, n |-> 0, sessions |-> <<>>,
   session |-> NoSessionInfo, stats |-> NoDecayStats]

\* an error raised with createError(message, code, status) and sent by errorHandler
Failure(st, code, status, log) ==
  [Result(st) EXCEPT !.status = ErrorStatus(code, status), !.code = code,
                     !.log = log]

\* String.prototype.trim on the ids the model uses
Trim(x) == IF x = " " THEN "" ELSE x

\* schemas.memorySave: userId and sessionId are strings of length >= 1
\* (the importance and ttlHours inputs are all within their ranges)
ValidMemorySave(u, s) == u # "" /\ s # ""

\* schemas.memoryRecall: limit is an integer in 1..1000 when present
ValidMemoryRecall(limit) == limit = Absent \/ (limit >= 1 /\ limit <= MaxLimit)

\* POST /api/memory/save: validateMemorySave, then memoryController.saveMemory
\* (importance || 0.5 and ttlHours || null go to the bridge)
SaveMemory(st, u, s, imp, ttl, t) ==
  LET r == BridgeSaveMemory(st, coreCfg, isInitialized, cachePtr,
             [userId |-> u, sessionId |-> s,
              importance |-> OrDefault(imp, DefaultImportance),
              ttlHours |-> OrDefault(ttl, Absent)], t)
  IN IF ~ValidMemorySave(u, s)
     THEN [Result(st) EXCEPT !.status = 400, !.code = "VALIDATION_ERROR"]
     ELSE IF Trim(s) = ""
     THEN \* MISSING_SESSION_ID (400) is thrown inside the try and rewrapped
          Failure(st, "MEMORY_SAVE_ERROR", 500, <<>>)
     ELSE IF ~r.ok
     THEN Failure(st, "MEMORY_SAVE_ERROR", 500, <<>>)
     ELSE [Result(r.st) EXCEPT !.status = 201, !.id = r.id]

\* a bulk response that is always 201
BulkCreated(results, errors) == 201

\* bulkSaveMemories: the status of the response
BulkStatus(results, errors) ==
  IF Len(errors) > 0 /\ Len(results) > 0 THEN 207
  ELSE IF Len(errors) > 0 THEN 400
  ELSE 201

\* bulkSaveMemories: the loop over memories[i] from index i (0-based) on;
\* each item goes to rustBridge.saveMemory, a throw is caught and recorded
\* and the loop goes on
RECURSIVE BulkFrom(_, _, _, _)
BulkFrom(acc, memories, i, t) ==
  LET Next_(r) ==
        IF r.ok
        THEN [st |-> r.st,
              results |-> Append(acc.results, [index |-> i, memoryId |-> r.id]),
              errors |-> acc.errors]
        ELSE [acc EXCEPT !.errors = Append(@, [index |-> i])]
  IN IF i >= Len(memories) THEN acc
     ELSE BulkFrom(
            Next_(BridgeSaveMemory(acc.st, coreCfg, isInitialized, cachePtr,
                    [userId |-> memories[i + 1][1],
                     sessionId |-> memories[i + 1][2],
                     importance |-> DefaultImportance, ttlHours |-> Absent], t)),
            memories, i + 1, t)

\* POST /api/memory/bulk (the route has no validator): bulkSaveMemories
BulkSaveMemories(st, memories, t) ==
  LET Response(done) ==
        [st |-> done.st, status |-> BulkStatus(done.results, done.errors),
         success |-> Len(done.errors) = 0,
         results |-> done.results, errors |-> done.errors,
         total |-> Len(memories), successful |-> Len(done.results),
         failed |-> Len(done.errors)]
  IN Response(BulkFrom([st |-> st, results |-> <<>>, errors |-> <<>>],
                       memories, 0, t))

\* memoryController.recallMemories / searchMemories after the filter is
\* built: query is `query || null`, limit is `limit || 50`, minImportance is
\* carried in the filter
RecallWith(errCode, st, u, s, q, limit, minImp, t) ==
  LET r == BridgeRecallMemories(st, isInitialized, cachePtr, nullUserMode,
             [userId |-> u, query |-> q, sessionId |-> s,
              limit |-> OrDefault(limit, DefaultLimit),
              minImportance |-> OrDefault(minImp, Absent)], t)
  IN IF ~r.ok
     THEN Failure(st, errCode, 500, r.log)
     ELSE [Result(st) EXCEPT !.ids = r.ids, !.n = Len(r.ids), !.log = r.log,
                             !.limit = OrDefault(limit, DefaultLimit)]

\* POST /api/memory/recall: validateMemoryRecall, then recallMemories
RecallMemories(st, u, s, q, limit, minImp, t) ==
  IF ~ValidMemoryRecall(limit)
  THEN [Result(st) EXCEPT !.status = 400, !.code = "VALIDATION_ERROR"]
  ELSE RecallWith("MEMORY_RECALL_ERROR", st, u, s, q, limit, minImp, t)

\* GET /api/memory/search: the route has no validator; limit is
\* `parseInt(limit) || 50`
SearchMemories(st, u, s, q, limit, minImp, t) ==
  RecallWith("SEARCH_ERROR", st, u, s, q, limit, minImp, t)

\* GET /api/memory/export/:userId
ExportUserMemories(st, u, t) ==
  LET r == BridgeExportUserMemories(st, isInitialized, cachePtr, nullUserMode, u, t)
  IN IF ~r.ok
     THEN Failure(st, "EXPORT_ERROR", 500, r.log)
     ELSE [Result(st) EXCEPT !.ids = r.ids, !.n = Len(r.ids), !.log = r.log]

\* GET /api/stats/user/:userId (statsController.getUserStats): a recall of
\* the user with limit 10000, then getUserSessions
GetUserStats(st, u, t) ==
  LET r == BridgeRecallMemories(st, isInitialized, cachePtr, nullUserMode,
             [userId |-> u, query |-> NoQuery, sessionId |-> NoSession, limit |-> SessionScanLimit,
              minImportance |-> Absent], t)
      g == BridgeGetUserSessions(st, isInitialized, cachePtr, nullUserMode, u, t)
  IN IF ~r.ok \/ ~g.ok
     THEN Failure(st, "USER_STATS_ERROR", 500, r.log \o g.log)
     ELSE [Result(st) EXCEPT !.ids = r.ids, !.n = Len(r.ids),
                             !.sessions = g.sessions, !.log = r.log \o g.log]

\* DELETE /api/memory/decay
RunDecayProcess(st, t) ==
  LET r == BridgeRunDecay(st, coreCfg, isInitialized, cachePtr, t)
  IN IF ~r.ok
     THEN Failure(st, "DECAY_ERROR", 500, <<>>)
     ELSE [Result(r.st) EXCEPT !.stats = r.stats]

\* GET /api/sessions/:userId
GetUserSessions(st, u, t) ==
  LET g == BridgeGetUserSessions(st, isInitialized, cachePtr, nullUserMode, u, t)
  IN IF ~g.ok
     THEN Failure(st, "SESSION_LIST_ERROR", 500, g.log)
     ELSE [Result(st) EXCEPT !.sessions = g.sessions, !.n = Len(g.sessions),
                             !.log = g.log]

\* the check all three session handlers start with: bridge.getSession, then
\* 404 SESSION_NOT_FOUND when it is null and 403 SESSION_ACCESS_DENIED when
\* its userId is not the caller's; both are rethrown as they are, any other
\* error is wrapped as a 500 with the handler's code
SessionGuard(errCode, st, u, s, t) ==
  LET g == BridgeGetSession(st, isInitialized, cachePtr, nullUserMode, s, t)
  IN IF ~g.ok THEN Failure(st, errCode, 500, g.log)
     ELSE IF ~g.found THEN Failure(st, "SESSION_NOT_FOUND", 404, g.log)
     ELSE IF g.session.userId # u THEN Failure(st, "SESSION_ACCESS_DENIED", 403, g.log)
     ELSE [Result(st) EXCEPT !.session = g.session, !.log = g.log]

\* GET /api/sessions/:userId/:sessionId
GetSession(st, u, s, t) == SessionGuard("SESSION_GET_ERROR", st, u, s, t)

\* summarizeSession of both controllers after the bridge call: 404
\* SESSION_EMPTY when the error message includes 'No memories found', 500
\* SUMMARY_ERROR for any other error
Summarized(st, r) ==
  IF r.ok THEN [Result(st) EXCEPT !.n = r.memory_count]
  ELSE IF r.error = "No memories found"
  THEN Failure(st, "SESSION_EMPTY", 404, <<>>)
  ELSE Failure(st, "SUMMARY_ERROR", 500, <<>>)

\* POST /api/memory/summarize: validateMemorySummarize, then
\* memoryController.summarizeSession
SummarizeSession(st, s, form, t) ==
  IF s = ""
  THEN [Result(st) EXCEPT !.status = 400, !.code = "VALIDATION_ERROR"]
  ELSE Summarized(st, BridgeSummarizeSession(st, isInitialized, cachePtr, s, form))

\* POST /api/sessions/:sessionId/summarize: sessionController.summarizeSession
SessionSummarize(st, s, form, t) ==
  Summarized(st, BridgeSummarizeSession(st, isInitialized, cachePtr, s, form))

\* POST /api/sessions: 201 with the generated id and the name of the request
CreateSession(st, u, name, generated, t) ==
  LET c == BridgeCreateSession(isInitialized, cachePtr, u, name, generated)
  IN IF ~c.ok THEN Failure(st, "SESSION_CREATE_ERROR", 500, <<>>)
     ELSE [Result(st) EXCEPT
             !.status = 201,
             !.session = [NoSessionInfo EXCEPT !.id = c.sessionId,
                                               !.userId = u, !.name = name]]

\* PUT /api/sessions/:userId/:sessionId
UpdateSession(st, u, s, t) ==
  LET c == SessionGuard("SESSION_UPDATE_ERROR", st, u, s, t)
      r == BridgeUpdateSession(st, isInitialized, cachePtr, nullUserMode, s, t)
  IN IF c.status # 200 THEN c
     ELSE IF ~r.ok THEN Failure(st, "SESSION_UPDATE_ERROR", 500, c.log \o r.log)
     ELSE [Result(r.st) EXCEPT !.session = r.session, !.log = c.log \o r.log]

\* DELETE /api/sessions/:userId/:sessionId?confirm=...
\* a handler that looks the session up before it asks for the confirmation
DeleteLooksUpFirst(st, u, s, confirm, t) ==
  LET c == SessionGuard("SESSION_DELETE_ERROR", st, u, s, t)
  IN IF c.status # 200 THEN c
     ELSE IF confirm # "true" THEN Failure(st, "CONFIRMATION_REQUIRED", 400, c.log)
     ELSE c

DeleteSession(st, u, s, confirm, t) ==
  LET c == SessionGuard("SESSION_DELETE_ERROR", st, u, s, t)
      r == BridgeDeleteSession(st, isInitialized, cachePtr, nullUserMode, s, t)
  IN IF confirm # "true" THEN Failure(st, "CONFIRMATION_REQUIRED", 400, <<>>)
     ELSE IF c.status # 200 THEN c
     ELSE IF ~r.ok THEN Failure(st, "SESSION_DELETE_ERROR", 500, c.log \o r.log)
     ELSE [Result(r.st) EXCEPT !.n = r.memoriesDeleted, !.log = c.log \o r.log]

\* RustBridge.getSessionMemories: a recall of the user's memories of the
\* session with limit 10000
BridgeGetSessionMemories(st, init, ptr, mode, userId, sessionId, t) ==
  BridgeRecallMemories(st, init, ptr, mode,
    [userId |-> userId, query |-> NoQuery, sessionId |-> sessionId,
     limit |-> SessionMemoriesLimit, minImportance |-> Absent], t)

\* parseInt of a query parameter: the integer of a numeral, NaN (written
\* Absent) for a parameter that is not given
ParseInt(x) == x

\* Array.prototype.slice(start, end) for 0 <= start
Slice(q, start, end) == SubSeq(q, start + 1, Min(end, Len(q)))

\* GET /api/sessions/:userId/:sessionId/memories: the slice is taken only
\* when limitNum is a number above 0; offsetNum is parseInt(offset) || 0 and
\* pagination.limit is limitNum || null
GetSessionMemories(st, u, s, limit, offset, t) ==
  LET limitNum == ParseInt(limit)
      offsetNum == OrDefault(ParseInt(offset), 0)
      Answer(r) ==
        IF ~r.ok
        THEN [st |-> st, status |-> 500, code |-> "SESSION_MEMORIES_ERROR",
              ids |-> <<>>, total |-> 0, returned |-> 0, offset |-> 0,
              limit |-> Absent]
        ELSE LET Page(ids) ==
                   [st |-> st, status |-> 200, code |-> "", ids |-> ids,
                    total |-> Len(r.ids), returned |-> Len(ids),
                    offset |-> offsetNum,
                    limit |-> OrDefault(limitNum, Absent)]
             IN IF limitNum # Absent /\ limitNum # 0 /\ limitNum > 0
                THEN Page(Slice(r.ids, offsetNum, offsetNum + limitNum))
                ELSE Page(r.ids)
  IN Answer(BridgeGetSessionMemories(st, isInitialized, cachePtr, nullUserMode,
                                     u, s, t))

\* --------------------------------------------------------------- actions
Idle ==
  [op |-> "none", userId |-> NoUser, sessionId |-> NoSession, status |-> 0,
   code |-> ""]
Responded(op, r) == [Idle EXCEPT !.op = op, !.status = r.status, !.code = r.code]
RespondedTo(op, u, s, r) ==
  [Responded(op, r) EXCEPT !.userId = u, !.sessionId = s]

\* MindCacheSDK.request before a call and its fields while one is running
SdkIdle ==
  [phase |-> "idle", attempt |-> 0, retries |-> 0, userId |-> NoUser,
   sessionId |-> NoSession, importance |-> Absent, ttlHours |-> Absent,
   applied |-> 0, status |-> Absent, history |-> <<>>, delay |-> 0]

\* the process after `new RustBridge(raw)`: no handle made, none held
LifeOf(raw) ==
  [supplied |-> raw, made |-> 0, current |-> 0, destroyed |-> {}, twice |-> FALSE,
   running |-> TRUE, nullCalls |-> FALSE, lastOp |-> "none"]

\* the CLI process before a command runs; error is what the command's catch
\* block received ("none", "http" with the response's status, "fetch" for a
\* timeout or a failed connection, "unavailable" for a failed ping)
CliIdle ==
  [phase |-> "idle", command |-> "none", error |-> "none", status |-> Absent,
   exit |-> Absent]

Init ==
  /\ \E c \in ConfigInputs : config = BridgeConfig(c[1], c[2])
  /\ isInitialized = FALSE
  /\ cachePtr = "null"
  /\ coreCfg = BridgeConfig(0, 0)
  /\ store = <<>>
  /\ now = 0
  /\ nullUserMode \in NullUserModes
  /\ lastResp = Idle
  /\ sdk = SdkIdle
  /\ core = CoreEmpty
  /\ cli = CliIdle
  /\ life = LifeOf(Supplied(0, 0, FALSE))

\* RustBridge.initialize, called once at startup (initializeServer):
\* loadRustLibrary, then initializeMindCache, which falls back to
\* mindcache_init() (core defaults) when the configured initialisation returns
\* null
Initialize ==
  /\ ~isInitialized
  /\ \E outcome \in {"ok", "fallback", "nolib", "nocore"} :
       \/ /\ outcome = "ok"
          /\ cachePtr' = "handle" /\ coreCfg' = config /\ isInitialized' = TRUE
          /\ core' = CoreStartup(core)
       \/ /\ outcome = "fallback"
          /\ cachePtr' = "handle" /\ coreCfg' = BridgeConfig(0, 0)
          /\ isInitialized' = TRUE
          /\ core' = CoreStartup(core)
       \/ /\ outcome = "nolib"
          /\ UNCHANGED <<cachePtr, coreCfg, isInitialized, core>>
       \/ /\ outcome = "nocore"
          /\ cachePtr' = "null"
          /\ UNCHANGED <<coreCfg, isInitialized, core>>
  /\ lastResp' = Idle
  /\ UNCHANGED <<config, store, now, nullUserMode, sdk, cli, life>>

\* the wall clock advances one hour
Tick ==
  /\ now < MaxTime
  /\ now' = now + 1
  /\ lastResp' = Idle
  /\ UNCHANGED <<config, isInitialized, cachePtr, coreCfg, store, nullUserMode, sdk,
               core, cli, life>>

Handled(op, r) ==
  /\ \E done \in {r} :
       /\ store' = done.st
       /\ lastResp' = Responded(op, done)
  /\ UNCHANGED <<config, isInitialized, cachePtr, coreCfg, now, nullUserMode, sdk,
               core, cli, life>>

HttpSaveMemory ==
  /\ Len(store) < MaxMem
  /\ \E id \in SaveIdInputs, o \in SaveOptionInputs :
       \E r \in {SaveMemory(store, id[1], id[2], o[1], o[2], now)} :
          /\ store' = r.st
          /\ lastResp' = RespondedTo("save", id[1], id[2], r)
  /\ UNCHANGED <<config, isInitialized, cachePtr, coreCfg, now, nullUserMode, sdk,
               core, cli, life>>

HttpBulkSaveMemories ==
  /\ \E memories \in BulkInputs :
       \E r \in {BulkSaveMemories(store, memories, now)} :
          /\ Len(r.st) <= MaxMem
          /\ store' = r.st
          /\ lastResp' = [Idle EXCEPT !.op = "bulk", !.status = r.status]
  /\ UNCHANGED <<config, isInitialized, cachePtr, coreCfg, now, nullUserMode, sdk,
               core, cli, life>>

HttpRecallMemories ==
  \E u \in Users, s \in SessionIds \cup {NoSession}, o \in RecallOptionInputs :
    Handled("recall", RecallMemories(store, u, s, o[3], o[1], o[2], now))

HttpSearchMemories ==
  \E u \in Users, s \in SessionIds \cup {NoSession}, o \in RecallOptionInputs :
    Handled("search", SearchMemories(store, u, s, o[3], o[1], o[2], now))

HttpExportUserMemories ==
  \E u \in Users : Handled("export", ExportUserMemories(store, u, now))

HttpGetUserStats ==
  \E u \in Users : Handled("stats", GetUserStats(store, u, now))

HttpRunDecay == Handled("decay", RunDecayProcess(store, now))

HttpSummarizeSession ==
  \E s \in SessionIds \cup {""}, form \in SummaryEmptyForms :
    Handled("summarize", SummarizeSession(store, s, form, now))

HttpSessionSummarize ==
  \E s \in SessionIds, form \in SummaryEmptyForms :
    Handled("sessionSummarize", SessionSummarize(store, s, form, now))

HttpCreateSession ==
  \E u \in Users, name \in SessionNames \cup {NoName},
     generated \in FreshSessionIds(store) :
    \E r \in {CreateSession(store, u, name, generated, now)} :
       /\ store' = r.st
       /\ lastResp' = RespondedTo("createSession", u, generated, r)
       /\ UNCHANGED <<config, isInitialized, cachePtr, coreCfg, now,
                      nullUserMode, sdk, core, cli, life>>

HttpGetUserSessions ==
  \E u \in Users : Handled("listSessions", GetUserSessions(store, u, now))

HttpGetSessionMemories ==
  \E u \in Users, s \in SessionIds, limit \in PageLimitInputs,
     offset \in PageOffsetInputs :
    Handled("getSessionMemories",
            GetSessionMemories(store, u, s, limit, offset, now))

HttpGetSession ==
  \E u \in Users, s \in SessionIds : Handled("getSession", GetSession(store, u, s, now))

HttpUpdateSession ==
  \E u \in Users, s \in SessionIds :
    Handled("updateSession", UpdateSession(store, u, s, now))

HttpDeleteSession ==
  \E u \in Users, s \in SessionIds, confirm \in ConfirmInputs :
    Handled("deleteSession", DeleteSession(store, u, s, confirm, now))

\* MindCacheSDK.deleteSession: `?confirm=true` is appended when the confirm
\* argument (a boolean, false when omitted) holds
SdkConfirmParam(confirm) == IF confirm THEN "true" ELSE "absent"

SdkDeleteSession ==
  \E u \in Users, s \in SessionIds, confirm \in BOOLEAN :
    Handled("sdk.deleteSession",
            DeleteSession(store, u, s, SdkConfirmParam(confirm), now))

\* ------------------------------------------------------------------- SDK
\* options.retries of the SDK constructor (0 = not given)
RetryInputs == {0, 2, 6}

\* what one fetch of the request can come to: a response from the server, the
\* timeout firing after the server has handled the request, the timeout
\* firing or the connection failing before the request reaches the server
FetchOutcomes == {"response", "timeout_handled", "timeout_lost", "network_error"}

\* MindCacheSDK.saveMemory -> request('POST', '/api/memory/save', memory):
\* the loop starts with attempt = 1
SdkSaveStart ==
  /\ sdk.phase # "running"
  /\ \E id \in SaveIdInputs, o \in SaveOptionInputs, n \in RetryInputs :
       sdk' = [SdkIdle EXCEPT
                 !.phase = "running", !.attempt = 1,
                 !.retries = OrDefault(n, SdkDefaultRetries),
                 !.userId = id[1], !.sessionId = id[2],
                 !.importance = o[1], !.ttlHours = o[2]]
  /\ lastResp' = Idle
  /\ UNCHANGED <<config, isInitialized, cachePtr, coreCfg, store, now, nullUserMode,
               core, cli, life>>

\* the error status the catch block sees: the HTTP status of a response that
\* is not ok, 0 for a timeout (MindCacheError) or a failed fetch
SdkErrorStatus(outcome, r) == IF outcome = "response" THEN r.status ELSE 0

\* a loop that goes on after any error while attempts remain
RetryAnyError(status, attempt, retries) ==
  IF attempt < retries THEN "running" ELSE "thrown"

\* the phase after a failed attempt: a 4xx breaks the loop, otherwise the
\* loop goes on while attempt < retries
SdkAfterError(status, attempt, retries) ==
  IF status >= 400 /\ status < 500 THEN "thrown"
  ELSE IF attempt < retries THEN "running"
  ELSE "thrown"

\* a backoff without its ceiling
DelayUncapped(attempt) == 1000 * 2 ^ (attempt - 1)

\* the wait before the next attempt, ms: Math.min(1000 * 2^(attempt - 1), 10000)
SdkDelay(attempt) == Min(1000 * 2 ^ (attempt - 1), 10000)

\* one iteration of the loop of MindCacheSDK.request, with the server's
\* handling of the save when the request reaches it (the store holds at
\* most MaxMem memories: a request sent to a full store is one that is lost)
SdkAttempt ==
  /\ sdk.phase = "running"
  /\ \E outcome \in FetchOutcomes :
       LET handled == outcome \in {"response", "timeout_handled"}
           r == IF handled
                THEN SaveMemory(store, sdk.userId, sdk.sessionId, sdk.importance,
                                sdk.ttlHours, now)
                ELSE Result(store)
           ok == outcome = "response" /\ r.status >= 200 /\ r.status < 300
           status == SdkErrorStatus(outcome, r)
           phase == IF ok THEN "returned"
                    ELSE SdkAfterError(status, sdk.attempt, sdk.retries)
       IN /\ handled => Len(store) < MaxMem
          /\ store' = r.st
          /\ lastResp' = IF handled
                         THEN RespondedTo("save", sdk.userId, sdk.sessionId, r)
                         ELSE Idle
          /\ sdk' = [sdk EXCEPT
                       !.phase = phase,
                       !.attempt = IF phase = "running" THEN @ + 1 ELSE @,
                       !.applied = IF handled /\ r.status = 201 THEN @ + 1 ELSE @,
                       !.status = IF ok THEN r.status ELSE status,
                       !.history = Append(@, IF ok THEN r.status ELSE status),
                       !.delay = IF phase = "running" THEN SdkDelay(sdk.attempt)
                                 ELSE 0]
  /\ UNCHANGED <<config, isInitialized, cachePtr, coreCfg, now, nullUserMode,
               core, cli, life>>

\* ------------------------------------------------------- bridge lifecycle
\* configuration is validated at init: a value out of range is refused
CoreAcceptsConfig(cfg) ==
  cfg.default_memory_ttl_hours >= 1 /\ cfg.max_memories_per_user >= 1

\* RustBridge.initializeMindCache: mindcache_init_with_config(this.config),
\* and mindcache_init() when that returns null; env is whether the core can
\* start at all
InitializeMindCache(cfg, env) ==
  IF env # "ok" THEN [ptr |-> "null", coreCfg |-> cfg]
  ELSE IF CoreAcceptsConfig(cfg) THEN [ptr |-> "handle", coreCfg |-> cfg]
  ELSE [ptr |-> "handle", coreCfg |-> BridgeConfig(0, 0)]

LifeStep(l) ==
  /\ life' = l
  /\ UNCHANGED <<config, store, now, nullUserMode, lastResp, sdk, core, cli>>

\* RustBridge.initialize at any time: loadRustLibrary (which may throw), then
\* initializeMindCache, which overwrites cachePtr, then isInitialized = true
LifeInitialize ==
  /\ life.running
  /\ life.made < MaxHandles
  /\ \E env \in {"ok", "nolib", "io"} :
       \E r \in {InitializeMindCache(config, env)} :
         IF env = "nolib"
         THEN /\ UNCHANGED <<cachePtr, coreCfg, isInitialized>>
              /\ LifeStep([life EXCEPT !.lastOp = "none"])
         ELSE /\ cachePtr' = r.ptr
              /\ coreCfg' = IF r.ptr = "handle" THEN r.coreCfg ELSE coreCfg
              /\ isInitialized' = (isInitialized \/ r.ptr = "handle")
              /\ LifeStep([life EXCEPT
                             !.made = IF r.ptr = "handle" THEN @ + 1 ELSE @,
                             !.current = IF r.ptr = "handle" THEN life.made + 1
                                         ELSE 0,
                             !.lastOp = "none"])

\* RustBridge.cleanup: mindcache_destroy(cachePtr) when cachePtr is not
\* null, cachePtr = null, isInitialized = false
LifeCleaned(l, ptr) ==
  IF ptr = "null" THEN l
  ELSE [l EXCEPT !.destroyed = @ \cup {l.current},
                 !.twice = @ \/ l.current \in l.destroyed,
                 !.current = 0]

LifeCleanup ==
  /\ life.running
  /\ cachePtr' = "null"
  /\ isInitialized' = FALSE
  /\ UNCHANGED coreCfg
  /\ LifeStep([LifeCleaned(life, cachePtr) EXCEPT !.lastOp = "none"])

\* a bridge operation: ensureInitialized throws, or the core is called with
\* cachePtr
LifeOperation ==
  /\ life.running
  /\ UNCHANGED <<cachePtr, coreCfg, isInitialized>>
  /\ LifeStep(IF ~EnsureInitialized(isInitialized, cachePtr)
              THEN [life EXCEPT !.lastOp = "not_initialized"]
              ELSE [life EXCEPT
                      !.lastOp = "called",
                      !.nullCalls = @ \/ life.current = 0
                                      \/ life.current \in life.destroyed])

\* startServer leaves configureErrorHandling() commented out, so
\* gracefulShutdown is not registered for SIGTERM and SIGINT
HandlersRegistered == FALSE

\* SIGTERM or SIGINT: gracefulShutdown (cleanup, then exit) when it is
\* registered, otherwise the process ends at once
Sigterm ==
  /\ life.running
  /\ cachePtr' = IF HandlersRegistered THEN "null" ELSE cachePtr
  /\ isInitialized' = (IF HandlersRegistered THEN FALSE ELSE isInitialized)
  /\ UNCHANGED coreCfg
  /\ LifeStep([(IF HandlersRegistered THEN LifeCleaned(life, cachePtr) ELSE life)
                 EXCEPT !.running = FALSE, !.lastOp = "none"])

\* ------------------------------------------------------------------- CLI
\* handleError(error): prints the message and the status, then process.exit(1)
HandleError(error, status) == 1

\* the exit code of a command: 0 when the action returns, handleError's
\* when it throws
CliExited(command, error, status) ==
  [phase |-> "exited", command |-> command, error |-> error, status |-> status,
   exit |-> IF error = "none" THEN 0 ELSE HandleError(error, status)]

CliStep(c) ==
  /\ cli' = c
  /\ UNCHANGED <<config, isInitialized, cachePtr, coreCfg, store, now,
                 nullUserMode, lastResp, sdk, core, life>>

\* `mindcache save --user u --session s --content c`: sdk.saveMemory
CliSave ==
  /\ cli.phase # "running"
  /\ sdk.phase # "running"
  /\ \E id \in Users \X SessionIds, o \in SaveOptionInputs :
       sdk' = [SdkIdle EXCEPT
                 !.phase = "running", !.attempt = 1,
                 !.retries = SdkDefaultRetries,
                 !.userId = id[1], !.sessionId = id[2],
                 !.importance = o[1], !.ttlHours = o[2]]
  /\ cli' = [CliIdle EXCEPT !.phase = "running", !.command = "save"]
  /\ lastResp' = Idle
  /\ UNCHANGED <<config, isInitialized, cachePtr, coreCfg, store, now,
                 nullUserMode, core, life>>

\* the save command after sdk.saveMemory has returned or thrown
CliSaveExit ==
  /\ cli.phase = "running"
  /\ cli.command = "save"
  /\ sdk.phase \in {"returned", "thrown"}
  /\ CliStep(IF sdk.phase = "returned"
             THEN CliExited("save", "none", Absent)
             ELSE CliExited("save", IF sdk.status = 0 THEN "fetch" ELSE "http",
                            sdk.status))

\* `mindcache summarize --session s`: sdk.summarizeSession, whose retries
\* see the same answer since a summary changes nothing
CliSummarize ==
  /\ cli.phase # "running"
  /\ \E s \in SessionIds, form \in SummaryEmptyForms,
        outcome \in {"response", "timeout_lost", "network_error"} :
       \E r \in {SummarizeSession(store, s, form, now)} :
         CliStep(IF outcome = "response" /\ r.status = 200
                 THEN CliExited("summarize", "none", Absent)
                 ELSE CliExited("summarize",
                                IF outcome = "response" THEN "http" ELSE "fetch",
                                SdkErrorStatus(outcome, r)))

\* `mindcache ping`: isApiAvailable (false on any error) exits with 1 when
\* false; getApiInfo may throw into handleError
CliPing ==
  /\ cli.phase # "running"
  /\ \E outcome \in {"available", "unavailable", "info_error"} :
       CliStep(IF outcome = "available" THEN CliExited("ping", "none", Absent)
               ELSE IF outcome = "unavailable"
               THEN [CliExited("ping", "unavailable", Absent) EXCEPT !.exit = 1]
               ELSE CliExited("ping", "fetch", 0))

\* ------------------------------------------------- the core's put, in steps
\* put appends the record to the active segment (write, flush, fsync), then
\* journals it in the write manifest (fsync), then updates the indexes, and
\* only then is the write acknowledged; ids are assigned in sequence
CoreStep(c) ==
  /\ EnsureInitialized(isInitialized, cachePtr)
  /\ core' = c
  /\ UNCHANGED <<config, isInitialized, cachePtr, coreCfg, store, now, nullUserMode,
                 lastResp, sdk, cli, life>>

PutAppend ==
  /\ core.writing = 0
  /\ Cardinality(core.segment) < MaxWrites
  /\ LET id == Cardinality(core.segment) + 1
     IN CoreStep([core EXCEPT !.segment = @ \cup {id}, !.writing = id])

PutManifest ==
  /\ core.writing # 0
  /\ core.writing \notin core.manifest
  /\ CoreStep([core EXCEPT !.manifest = @ \cup {core.writing}])

PutIndexUser ==
  /\ core.writing \in core.manifest
  /\ core.writing \notin core.byUser
  /\ CoreStep([core EXCEPT !.byUser = @ \cup {core.writing}])

PutIndexSession ==
  /\ core.writing \in core.manifest
  /\ core.writing \notin core.bySession
  /\ CoreStep([core EXCEPT !.bySession = @ \cup {core.writing}])

PutAck ==
  /\ core.writing \in core.manifest \cap core.byUser \cap core.bySession
  /\ CoreStep([core EXCEPT !.acked = @ \cup {core.writing}, !.writing = 0])

\* the periodic snapshot of the in-memory indexes
IndexSnapshot ==
  /\ <<core.snapUser, core.snapSession>> # <<core.byUser, core.bySession>>
  /\ CoreStep([core EXCEPT !.snapUser = core.byUser,
                           !.snapSession = core.bySession])

\* the process is killed at any point; RustBridge.initialize of the next
\* process is the restart
Kill ==
  /\ EnsureInitialized(isInitialized, cachePtr)
  /\ isInitialized' = FALSE
  /\ cachePtr' = "null"
  /\ core' = CoreKilled(core)
  /\ lastResp' = Idle
  /\ UNCHANGED <<config, coreCfg, store, now, nullUserMode, sdk, cli, life>>

\* recall, step 6: the returned ids are touched; the touches are batched in
\* memory
TouchBatch ==
  \E u \in Users, s \in SessionIds \cup {NoSession} :
    LET r == CoreRecall(store, nullUserMode, u, s, NoQuery, DefaultLimit, now)
    IN /\ r.ids # <<>>
       /\ CoreStep([core EXCEPT !.pending = @ \cup SeqToSet(r.ids)])

\* the batch is flushed (every access_flush_interval)
TouchFlush ==
  /\ EnsureInitialized(isInitialized, cachePtr)
  /\ core.pending # {}
  /\ \A i \in core.pending : store[i].access_count < MaxAccess
  /\ store' = TouchFlushed(store, core.pending, now)
  /\ core' = [core EXCEPT !.pending = {}]
  /\ UNCHANGED <<config, isInitialized, cachePtr, coreCfg, now, nullUserMode,
                 lastResp, sdk, cli, life>>

Next ==
  \/ Initialize
  \/ Tick
  \/ HttpSaveMemory
  \/ HttpRecallMemories
  \/ HttpSearchMemories
  \/ HttpExportUserMemories
  \/ HttpGetUserStats
  \/ HttpRunDecay
  \/ HttpSummarizeSession

Spec == Init /\ [][Next]_vars

\* the bulk route next to the single save
NextBulk ==
  \/ Initialize
  \/ Tick
  \/ HttpSaveMemory
  \/ HttpBulkSaveMemories
  \/ HttpRunDecay

SpecBulk == Init /\ [][NextBulk]_vars

\* the session routes (sessionRoutes.js) over the memories that saves and
\* decay leave
NextSessions ==
  \/ Initialize
  \/ Tick
  \/ HttpSaveMemory
  \/ HttpRunDecay
  \/ HttpCreateSession
  \/ HttpGetUserSessions
  \/ HttpGetSession
  \/ HttpUpdateSession
  \/ HttpDeleteSession
  \/ HttpSessionSummarize
  \/ HttpGetSessionMemories
  \/ SdkDeleteSession

SpecSessions == Init /\ [][NextSessions]_vars

\* a client that saves through the SDK
\* the SDK against a server with the default configuration
InitSdk == Init /\ config = BridgeConfig(0, 0) /\ nullUserMode = "reject"

NextSdk ==
  \/ Initialize
  \/ Tick
  \/ SdkSaveStart
  \/ SdkAttempt

SpecSdk == InitSdk /\ [][NextSdk]_vars

\* the loop of request is not suspended for ever: each await (fetch with its
\* timeout, the backoff timer) completes
SpecSdkLive == SpecSdk /\ WF_vars(SdkAttempt)

\* the bridge's lifecycle: construction with any config object, then
\* initialize, cleanup, operations and the shutdown signal in any order
InitLife ==
  /\ \E raw \in SuppliedInputs :
       /\ config = BridgeConfig(raw.ttl, raw.cap)
       /\ life = LifeOf(raw)
  /\ isInitialized = FALSE
  /\ cachePtr = "null"
  /\ coreCfg = BridgeConfig(0, 0)
  /\ store = <<>>
  /\ now = 0
  /\ nullUserMode = "reject"
  /\ lastResp = Idle
  /\ sdk = SdkIdle
  /\ core = CoreEmpty
  /\ cli = CliIdle

NextLife ==
  \/ LifeInitialize
  \/ LifeCleanup
  \/ LifeOperation
  \/ Sigterm

SpecLife == InitLife /\ [][NextLife]_vars

\* the CLI's commands against a server with the default configuration
InitCli == Init /\ config = BridgeConfig(0, 0) /\ nullUserMode = "reject"

NextCli ==
  \/ Initialize
  \/ Tick
  \/ CliSave
  \/ SdkAttempt
  \/ CliSaveExit
  \/ CliSummarize
  \/ CliPing

SpecCli == InitCli /\ [][NextCli]_vars

\* the core's write path under kills and restarts
NextCrash ==
  \/ Initialize
  \/ PutAppend
  \/ PutManifest
  \/ PutIndexUser
  \/ PutIndexSession
  \/ PutAck
  \/ IndexSnapshot
  \/ Kill

SpecCrash == Init /\ [][NextCrash]_vars

\* the access metadata under recalls (the touches they batch), flushes,
\* decay, kills and restarts, for a bridge with the default configuration
InitTouch ==
  /\ Init
  /\ config = BridgeConfig(0, 0)
  /\ nullUserMode = "reject"

NextTouch ==
  \/ Initialize
  \/ Tick
  \/ HttpSaveMemory
  \/ HttpRunDecay
  \/ TouchBatch
  \/ TouchFlush
  \/ Kill

SpecTouch == InitTouch /\ [][NextTouch]_vars

\* get-session and list-sessions over memories that recalls have touched, on
\* a core that answers a recall without user_id
InitAgree ==
  /\ Init
  /\ config = BridgeConfig(0, 0)
  /\ nullUserMode = "unscoped"

NextAgree ==
  \/ Initialize
  \/ Tick
  \/ HttpSaveMemory
  \/ TouchBatch
  \/ TouchFlush
  \/ HttpGetSession
  \/ HttpGetUserSessions

SpecAgree == InitAgree /\ [][NextAgree]_vars

\* ---------------------------------------------------------------- claims
\* the bridge has a core handle, so the handlers reach the core
Ready == EnsureInitialized(isInitialized, cachePtr)

\* a recall of everything a user has: no session filter, the largest limit
\* the validator lets through
RecallAll(st, u) ==
  RecallMemories(st, u, NoSession, NoQuery, MaxLimit, Absent, now)

\* C1: a recall of a user without a bound on the limit returns exactly the
\* ids saved for that user and not tombstoned; the memories of a session that
\* delete_session has reported as deleted are tombstoned, so the recall that
\* follows returns the user's live ids without them
C1_RecallExactlyLive ==
  \A u \in Users :
    /\ LET r == RecallAll(store, u)
       IN r.status = 200 => SeqToSet(r.ids) = LiveOfUser(store, u)
    /\ \A s \in SessionIds :
         LET d == DeleteSession(store, u, s, "true", now)
             r == RecallAll(d.st, u)
         IN d.status = 200 /\ r.status = 200 =>
              SeqToSet(r.ids) = LiveOfUser(store, u) \ LiveOfSession(store, s)

\* C2: a delete_session that succeeds returns the number of memories of the
\* session, after it a recall of the session is empty, the session is not
\* found and not listed, and a second delete_session answers 404
C2_DeleteSessionDestroys ==
  \A u \in Users, s \in SessionIds :
    LET d == DeleteSession(store, u, s, "true", now)
    IN d.status = 200 =>
         /\ d.n = Cardinality(LiveOfSession(store, s))
         /\ RecallMemories(d.st, u, s, NoQuery, MaxLimit, Absent, now).ids = <<>>
         /\ GetSession(d.st, u, s, now).status = 404
         /\ \A k \in DOMAIN GetUserSessions(d.st, u, now).sessions :
              GetUserSessions(d.st, u, now).sessions[k].id # s
         /\ DeleteSession(d.st, u, s, "true", now).status = 404

\* the status and the session a get-session answers with
SessionAnswer(st, u, s) ==
  LET g == GetSession(st, u, s, now) IN <<g.status, g.code, g.session>>

\* C3: a save, delete_session or session update of user a changes no recall,
\* session list or get-session of another user b, and every recall a handler
\* sends to the core carries the user id of the request
C3_UserIsolation ==
  /\ \A a \in Users, s \in SessionIds :
       \A w \in {SaveMemory(store, a, s, Absent, Absent, now),
                 DeleteSession(store, a, s, "true", now),
                 UpdateSession(store, a, s, now)} :
         \A b \in Users \ {a} :
           /\ RecallAll(w.st, b).ids = RecallAll(store, b).ids
           /\ GetUserSessions(w.st, b, now).sessions
                = GetUserSessions(store, b, now).sessions
           /\ \A s2 \in SessionIds :
                SessionAnswer(w.st, b, s2) = SessionAnswer(store, b, s2)
  /\ \A u \in Users, s \in SessionIds :
       \A r \in {RecallMemories(store, u, s, NoQuery, Absent, Absent, now),
                 GetUserSessions(store, u, now),
                 GetSession(store, u, s, now),
                 UpdateSession(store, u, s, now),
                 DeleteSession(store, u, s, "true", now)} :
         \A k \in DOMAIN r.log : r.log[k].userId = u

\* C4: all live memories of one session id have the same user (I3), and a
\* save into a session whose memories belong to another user is answered
\* with an error and leaves the store as it is
C4_SessionSingleUser ==
  /\ \A i \in LiveIds(store), j \in LiveIds(store) :
       store[i].session = store[j].session => store[i].user = store[j].user
  /\ \A u \in Users, s \in SessionIds, o \in SaveOptionInputs :
       (\E i \in LiveOfSession(store, s) : store[i].user # u) =>
         LET r == SaveMemory(store, u, s, o[1], o[2], now)
         IN r.status >= 400 /\ r.st = store

\* C4 case: a save into a session of another user has just been refused
C4_Witness ==
  /\ Ready
  /\ lastResp.op = "save"
  /\ lastResp.status = 500
  /\ lastResp.code = "MEMORY_SAVE_ERROR"
  /\ \E i \in LiveOfSession(store, lastResp.sessionId) :
       store[i].user # lastResp.userId

\* C5: get-session, update-session and delete_session answer 403
\* SESSION_ACCESS_DENIED for a session of another user and 404
\* SESSION_NOT_FOUND for a session without memories, and change nothing
C5_SessionErrors ==
  Ready =>
    \A u \in Users, s \in SessionIds :
      \A r \in {GetSession(store, u, s, now),
                UpdateSession(store, u, s, now),
                DeleteSession(store, u, s, "true", now)} :
        /\ (\E i \in LiveOfSession(store, s) : store[i].user # u) =>
             /\ r.status = 403
             /\ r.code = "SESSION_ACCESS_DENIED"
             /\ r.st = store
        /\ LiveOfSession(store, s) = {} =>
             /\ r.status = 404
             /\ r.code = "SESSION_NOT_FOUND"
             /\ r.st = store

\* C6: a save that the SDK sends again after a timeout or a 5xx response is
\* applied at most once: one call of the SDK stores at most one memory
C6_RetryStoresOnce == sdk.applied <= 1

\* the members of ids appear in descending score
ScoreDescending(st, ids, t) ==
  \A k \in 1..(Len(ids) - 1) : Score(st[ids[k]], t) >= Score(st[ids[k + 1]], t)

\* C7: a recall with minImportance m returns exactly the live memories of the
\* user with importance >= m, in descending score
C7_MinImportanceFilter ==
  \A u \in Users, m \in {400, 600} :
    LET r == RecallMemories(store, u, NoSession, NoQuery, Absent, m, now)
    IN r.status = 200 =>
         /\ SeqToSet(r.ids) = {i \in LiveOfUser(store, u) : store[i].importance >= m}
         /\ ScoreDescending(store, r.ids, now)

\* C8: a save with importance i stores importance i, also for i = 0; a save
\* without importance stores 0.5
C8_ImportanceStored ==
  \A id \in Users \X SessionIds, i \in {Absent, 0, 900} :
    LET r == SaveMemory(store, id[1], id[2], i, Absent, now)
    IN r.status = 201 =>
         r.st[r.id].importance = (IF i = Absent THEN DefaultImportance ELSE i)

\* C9: a save with ttlHours h stores expires_at = created_at + h, and the
\* default TTL of the configuration in force when ttlHours is omitted; a decay
\* tombstones the memories with expires_at <= now, counts them as expired and
\* expires no other memory, and a recall after it returns none of them
C9_TtlExpiry ==
  /\ \A id \in Users \X SessionIds, h \in {Absent, 1} :
       LET r == SaveMemory(store, id[1], id[2], Absent, h, now)
       IN r.status = 201 =>
            /\ r.st[r.id].created_at = now
            /\ r.st[r.id].expires_at =
                 now + (IF h = Absent THEN coreCfg.default_memory_ttl_hours ELSE h)
  /\ LET d == RunDecayProcess(store, now)
         due == {i \in LiveIds(store) : store[i].expires_at <= now}
     IN d.status = 200 =>
          /\ d.stats.expired = Cardinality(due)
          /\ due \cap LiveIds(d.st) = {}
          /\ \A u \in Users : SeqToSet(RecallAll(d.st, u).ids) \cap due = {}

\* C10: every recall a handler sends to the core has the request's limit, 50
\* when the request has none, never more than 1000, and the handler returns
\* at most that many memories
C10_RecallLimit ==
  \A u \in Users, s \in SessionIds \cup {NoSession}, o \in RecallOptionInputs :
    /\ \A r \in {RecallMemories(store, u, s, o[3], o[1], o[2], now),
                 SearchMemories(store, u, s, o[3], o[1], o[2], now)} :
         \A k \in DOMAIN r.log :
           /\ r.log[k].limit = (IF o[1] = Absent THEN DefaultLimit ELSE o[1])
           /\ r.log[k].limit <= MaxLimit
           /\ Len(r.ids) <= r.log[k].limit
    /\ \A r \in {ExportUserMemories(store, u, now),
                 GetUserSessions(store, u, now),
                 GetUserStats(store, u, now)} :
         \A k \in DOMAIN r.log : r.log[k].limit <= MaxLimit

\* the member of S that recall ranks last at time t: the lowest score
LowestScore(st, t, S) == Ranked(st, t, S)[Cardinality(S)]

\* C11: no user has more live memories than the max_memories_per_user of the
\* bridge's configuration, after a save and after a decay; a save of a user
\* who is at the cap is accepted, and it evicts the user's lowest-score memory
\* and nothing else
C11_PerUserCap ==
  /\ \A u \in Users :
       Cardinality(LiveOfUser(store, u)) <= config.max_memories_per_user
  /\ \A u \in Users :
       Cardinality(LiveOfUser(RunDecayProcess(store, now).st, u))
         <= config.max_memories_per_user
  /\ \A u \in Users, s \in SessionIds :
       LET mine == LiveOfUser(store, u)
           r == SaveMemory(store, u, s, Absent, Absent, now)
       IN /\ Ready
          /\ Cardinality(mine) >= config.max_memories_per_user
          /\ \A i \in LiveOfSession(store, s) : store[i].user = u
          => /\ r.status = 201
             /\ LiveOfUser(r.st, u)
                  = (mine \ {LowestScore(store, now, mine)}) \cup {r.id}

C14_CrashSafety ==
  Ready /\ core.writing = 0 =>
    /\ \A id \in core.segment :
         /\ (id \in core.byUser) = (id \in core.bySession)
         /\ id \in core.byUser => id \in core.manifest
    /\ core.acked \subseteq core.byUser \cap core.bySession

\* C14 case: the process was killed in the middle of one put (its record is
\* in the segment and nowhere else) and, after the restart, an acknowledged
\* save that no snapshot held has been replayed from the manifest
C14_Witness ==
  /\ Ready
  /\ core.writing = 0
  /\ core.segment \ core.manifest # {}
  /\ core.acked \cap core.replayed # {}

\* C15: access_count and last_accessed_at of a memory never decrease (I4),
\* across recalls, flushes of the touch batch, decay, kills and restarts; a
\* new memory has access_count 0, and last_accessed_at is never before
\* created_at
C15_AccessOnlyAdvances ==
  /\ [](\A i \in DOMAIN store :
          /\ store[i].access_count >= 0
          /\ store[i].last_accessed_at >= store[i].created_at)
  /\ [][/\ DOMAIN store \subseteq DOMAIN store'
        /\ \A i \in DOMAIN store' :
             IF i \in DOMAIN store
             THEN /\ store'[i].access_count >= store[i].access_count
                  /\ store'[i].last_accessed_at >= store[i].last_accessed_at
             ELSE store'[i].access_count = 0]_vars

\* C15 case: a memory was touched and flushed twice, the later time after
\* its creation, a decay has attenuated it, and the process has been killed
C15_Witness ==
  /\ ~Ready
  /\ \E i \in DOMAIN store :
       /\ store[i].access_count = MaxAccess
       /\ store[i].last_accessed_at > store[i].created_at
       /\ store[i].importance < CoreDefaultImportance


RECURSIVE SumOfCounts(_)
SumOfCounts(q) ==
  IF q = <<>> THEN 0
  ELSE q[Len(q)].memoryCount + SumOfCounts(SubSeq(q, 1, Len(q) - 1))

C17_SessionSidecar ==
  Ready =>
    \A u \in Users, name \in SessionNames, generated \in FreshSessionIds(store) :
      LET c == CreateSession(store, u, name, generated, now)
          g == GetSession(c.st, u, c.session.id, now)
          sv == SaveMemory(c.st, u, c.session.id, Absent, Absent, now)
          g2 == GetSession(sv.st, u, c.session.id, now)
          l2 == GetUserSessions(sv.st, u, now)
      IN /\ c.status = 201
         /\ c.session.name = name
         /\ g.status = 200
         /\ g.session.name = name
         /\ (sv.status \in {200, 201} /\ g2.status = 200) =>
              g2.session.name = name
         /\ (sv.status \in {200, 201} /\ l2.status = 200) =>
              \A k \in DOMAIN l2.sessions :
                l2.sessions[k].id = c.session.id => l2.sessions[k].name = name


\* C18: a save whose user id or session id is empty or only whitespace is
\* answered with status 400, not with a 500 save error, and stores nothing
C18_EmptyIdsRejected ==
  Ready =>
    \A id \in SaveIdInputs, o \in SaveOptionInputs :
      (Trim(id[1]) = "" \/ Trim(id[2]) = "") =>
        LET r == SaveMemory(store, id[1], id[2], o[1], o[2], now)
        IN /\ r.status = 400
           /\ r.code # "MEMORY_SAVE_ERROR"
           /\ r.st = store


\* C19: a summarize of a session without a live memory is answered with 404
\* SESSION_EMPTY by both summarize routes, whether the core's empty answer is
\* a null result or an error message
C19_SummarizeEmpty ==
  Ready =>
    \A s \in SessionIds, form \in SummaryEmptyForms :
      LiveOfSession(store, s) = {} =>
        \A r \in {SummarizeSession(store, s, form, now),
                  SessionSummarize(store, s, form, now)} :
          /\ r.status = 404
          /\ r.code = "SESSION_EMPTY"


\* C20: the CLI process exits with 0 when its command succeeded, 2 when the
\* server answered 400, 3 when it answered 404, 4 when it answered 403 or
\* 409, 5 or 6 when the request failed on the connection or timed out, and 1
\* on any other error
C20_CliExitCodes ==
  cli.phase = "exited" =>
    cli.exit =
      (IF cli.error = "none" THEN 0
       ELSE IF cli.error = "http" /\ cli.status = 400 THEN 2
       ELSE IF cli.error = "http" /\ cli.status = 404 THEN 3
       ELSE IF cli.error = "http" /\ cli.status \in {403, 409} THEN 4
       ELSE IF cli.error = "fetch" /\ cli.exit \in {5, 6} THEN cli.exit
       ELSE IF cli.error = "fetch" THEN 5
       ELSE 1)


\* C21: a bridge constructed with a config object that carries an unknown
\* key or a value out of range never becomes initialized
C21_ConfigValidated ==
  (\/ life.supplied.unknownKey
   \/ life.supplied.ttl < 0
   \/ life.supplied.cap < 0) => ~isInitialized


\* C22: every handle that initialize obtained is destroyed exactly once: no
\* handle is destroyed twice, the bridge never holds back more than the
\* handle in cachePtr (a second initialize leaks none), and when the process
\* has ended on a signal every handle is destroyed and the bridge is
\* uninitialized
C22_HandleLifecycle ==
  LET live == (1..life.made) \ life.destroyed
  IN /\ ~life.twice
     /\ life.running => live \subseteq {life.current}
     /\ ~life.running => (live = {} /\ ~isInitialized /\ cachePtr = "null")


\* C25: in any sequence of initialize, cleanup and operations the core is
\* never called without a handle or with a destroyed one: an operation calls
\* the core only while the bridge is initialized and cachePtr holds a handle
\* that was made and not destroyed; otherwise every bridge operation fails
\* as not initialized, sends nothing to the core and changes nothing
C25_LifecycleGuard ==
  LET guarded == isInitialized /\ cachePtr # "null"
      f == [userId |-> "u1", query |-> NoQuery, sessionId |-> "s1",
            limit |-> DefaultLimit, minImportance |-> Absent]
  IN /\ ~life.nullCalls
     /\ life.lastOp = "called" => guarded
     /\ guarded => (life.current \in 1..life.made /\ life.current \notin life.destroyed)
     /\ ~guarded =>
          /\ ~BridgeSaveMemory(store, coreCfg, isInitialized, cachePtr,
                               [userId |-> "u1", sessionId |-> "s1"], now).ok
          /\ BridgeSaveMemory(store, coreCfg, isInitialized, cachePtr,
                              [userId |-> "u1", sessionId |-> "s1"], now).st = store
          /\ \A r \in {BridgeRecallMemories(store, isInitialized, cachePtr,
                                            nullUserMode, f, now),
                       BridgeExportUserMemories(store, isInitialized, cachePtr,
                                                nullUserMode, "u1", now)} :
               ~r.ok /\ r.log = <<>>
          /\ BridgeSummarizeSession(store, isInitialized, cachePtr, "s1",
                                    "null").error = "Rust bridge not initialized"
          /\ ~BridgeRunDecay(store, coreCfg, isInitialized, cachePtr, now).ok
          /\ BridgeRunDecay(store, coreCfg, isInitialized, cachePtr, now).st = store
          /\ ~BridgeCreateSession(isInitialized, cachePtr, "u1", NoName, "s1").ok
          /\ \A r \in {BridgeGetSession(store, isInitialized, cachePtr,
                                        nullUserMode, "s1", now),
                       BridgeUpdateSession(store, isInitialized, cachePtr,
                                           nullUserMode, "s1", now),
                       BridgeDeleteSession(store, isInitialized, cachePtr,
                                           nullUserMode, "s1", now),
                       BridgeGetUserSessions(store, isInitialized, cachePtr,
                                             nullUserMode, "u1", now)} :
               ~r.ok /\ r.log = <<>>

\* C25 case: an operation has just been refused on a bridge whose flag is
\* still set after a later initialize failed and left cachePtr null, with an
\* earlier handle destroyed by a cleanup
C25_Witness ==
  /\ life.lastOp = "not_initialized"
  /\ isInitialized
  /\ cachePtr = "null"
  /\ life.destroyed # {}


\* C26: once initialize has succeeded, the core runs with the configuration
\* held in bridge.config, the one healthCheck reports
C26_CoreRunsBridgeConfig ==
  (isInitialized /\ cachePtr # "null") => coreCfg = config


\* the status of an attempt is a client error / a success
ClientError(x) == x >= 400 /\ x < 500
Success(x) == x >= 200 /\ x < 300

\* C23: the SDK never retries a client error: an attempt that got a 4xx is
\* the last attempt of its request and its error is the one thrown; after
\* any other failure (5xx, network error, timeout with status 0) the request
\* is thrown only when no attempt remains
C23_NoRetryOnClientError ==
  LET h == sdk.history
  IN /\ \A k \in DOMAIN h :
          ClientError(h[k]) =>
            /\ k = Len(h)
            /\ sdk.phase = "thrown"
            /\ sdk.status = h[k]
     /\ (sdk.phase = "thrown" /\ ~ClientError(h[Len(h)])) => Len(h) = sdk.retries
     /\ (sdk.phase = "running" /\ h # <<>>) =>
          (~ClientError(h[Len(h)]) /\ ~Success(h[Len(h)]))

\* C23 case: the second attempt of a request got a 400 after the first timed
\* out, attempts remained, and the 400 was thrown
C23_Witness ==
  /\ sdk.phase = "thrown"
  /\ sdk.history = <<0, 400>>
  /\ sdk.retries > 2
  /\ sdk.status = 400

\* the attempts of a request so far: at most `retries`, a success only as
\* the last one and then returned, the error thrown is the last attempt's,
\* the wait before attempt k+1 is min(1000 * 2^(k-1), 10000) ms and there is
\* none after the final attempt
SdkLoopBounded ==
  LET h == sdk.history
      n == Len(h)
  IN sdk.phase # "idle" =>
       /\ n <= sdk.retries
       /\ \A k \in 1..(n - 1) : ~Success(h[k])
       /\ sdk.phase = "returned" => (n >= 1 /\ Success(h[n]) /\ sdk.status = h[n])
       /\ sdk.phase = "thrown" => (n >= 1 /\ ~Success(h[n]) /\ sdk.status = h[n])
       /\ sdk.phase = "running" =>
            /\ n < sdk.retries
            /\ sdk.attempt = n + 1
            /\ n >= 1 => sdk.delay = Min(1000 * 2 ^ (n - 1), 10000)
       /\ sdk.phase \in {"returned", "thrown"} => sdk.delay = 0

\* C24: a request always terminates, after at most `retries` attempts, with
\* the response of the first successful attempt or the error of the last
\* attempt made, waiting min(1000 * 2^(k-1), 10000) ms before attempt k+1 and
\* not after the final attempt
C24_RequestTerminates ==
  /\ []SdkLoopBounded
  /\ (sdk.phase = "running") ~> (sdk.phase \in {"returned", "thrown"})

\* C24 case: the wait before the next attempt has reached its ceiling
C24_Witness ==
  /\ sdk.phase = "running"
  /\ sdk.delay = 10000
  /\ Len(sdk.history) >= 5


\* the indices of the entries of a results or errors list, in list order
IndexOf(q) == [k \in DOMAIN q |-> q[k].index]

\* C27: bulk save attempts every memory of the batch once, in index order,
\* and goes on after a failed item without undoing earlier ones: successful
\* + failed = total, each index is in exactly one of results and errors
\* (both in index order), every success is a record appended for its item
\* and is still stored at the end, an item the bridge must refuse is in
\* errors, and the status is 201 when no item failed, 207 when some but not
\* all failed, 400 when all failed
C27_BulkSave ==
  \A memories \in BulkInputs :
    LET r == BulkSaveMemories(store, memories, now)
        ok == IndexOf(r.results)
        ko == IndexOf(r.errors)
        n == Len(memories)
    IN /\ r.total = n
       /\ r.successful + r.failed = r.total
       /\ r.successful = Len(r.results) /\ r.failed = Len(r.errors)
       /\ SeqToSet(ok) \cup SeqToSet(ko) = 0..(n - 1)
       /\ SeqToSet(ok) \cap SeqToSet(ko) = {}
       /\ \A j, k \in DOMAIN ok : j < k => ok[j] < ok[k]
       /\ \A j, k \in DOMAIN ko : j < k => ko[j] < ko[k]
       /\ Len(r.st) = Len(store) + r.successful
       /\ \A i \in DOMAIN store :
            r.st[i] = store[i] \/ r.st[i] = [store[i] EXCEPT !.live = FALSE]
       /\ \A k \in DOMAIN r.results :
            LET id == r.results[k].memoryId
                item == memories[r.results[k].index + 1]
            IN /\ id = Len(store) + k
               /\ r.st[id].user = item[1]
               /\ r.st[id].session = item[2]
               /\ r.st[id].created_at = now
       /\ \A i \in 1..n :
            (~(isInitialized /\ cachePtr # "null")
               \/ memories[i][1] = "" \/ memories[i][2] = "")
              => (i - 1) \in SeqToSet(ko)
       /\ r.failed = 0 => (r.status = 201 /\ r.success)
       /\ (r.failed > 0 /\ r.successful > 0) => (r.status = 207 /\ ~r.success)
       /\ (r.failed > 0 /\ r.successful = 0) => (r.status = 400 /\ ~r.success)

\* C27 case: a bulk save answered 207 and left a memory stored; from the
\* store before it, a batch whose middle item fails stores the first and the
\* third
C27_Witness ==
  /\ lastResp.op = "bulk"
  /\ lastResp.status = 207
  /\ \E i \in DOMAIN store : store[i].live
  /\ isInitialized /\ cachePtr # "null"
  /\ \E memories \in BulkInputs :
       LET r == BulkSaveMemories(<<>>, memories, now)
       IN /\ Len(memories) = 3
          /\ IndexOf(r.results) = <<0, 2>>
          /\ IndexOf(r.errors) = <<1>>
          /\ r.status = 207
          /\ r.st = store


\* the memories of session s that user u holds, as the route lists them when
\* neither limit nor offset is given
FullList(st, u, s) == GetSessionMemories(st, u, s, Absent, Absent, now).ids

\* the list without its first o entries, and its first L entries
Skip(q, o) == [k \in 1..(IF Len(q) > o THEN Len(q) - o ELSE 0) |-> q[k + o]]
First(q, L) == [k \in 1..Min(L, Len(q)) |-> q[k]]

\* a limit L > 0 with an offset o >= 0 (or none) returns positions o..o+L-1
\* of the full list, in order, with returned = min(L, max(0, n - o)) and
\* total = n
PageWithLimit ==
  \A u \in Users, s \in SessionIds :
    \A L \in PageLimitInputs \ {Absent, 0}, o \in PageOffsetInputs :
      LET full == FullList(store, u, s)
          n == Cardinality(LiveOfUser(store, u) \cap LiveOfSession(store, s))
          skip == IF o = Absent THEN 0 ELSE o
          r == GetSessionMemories(store, u, s, L, o, now)
      IN (isInitialized /\ cachePtr # "null") =>
           /\ r.status = 200
           /\ r.ids = First(Skip(full, skip), L)
           /\ r.returned = Min(L, IF n > skip THEN n - skip ELSE 0)
           /\ r.total = n

\* C28: session-memory pagination returns positions o..o+L-1 of the full
\* list for a limit L > 0 and an offset o >= 0, with returned =
\* min(L, max(0, n - o)) and total = n; a request with an offset and no limit
\* also skips the first o memories
C28_SessionPagination ==
  /\ PageWithLimit
  /\ \A u \in Users, s \in SessionIds, o \in PageOffsetInputs \ {Absent} :
       LET full == FullList(store, u, s)
           r == GetSessionMemories(store, u, s, Absent, o, now)
       IN (isInitialized /\ cachePtr # "null") =>
            /\ r.status = 200
            /\ r.ids = Skip(full, o)
            /\ r.total = Len(full)


\* C29: for every session with at least one memory, get-session and
\* list-sessions agree: the same userId, memoryCount, createdAt (the earliest
\* member timestamp) and lastActive (the latest member timestamp), whatever
\* order recall returns the memories in
C29_SessionsAgree ==
  \A u \in Users, s \in SessionIds :
    LET members == LiveOfUser(store, u) \cap LiveOfSession(store, s)
        got == GetSession(store, u, s, now)
        listed == GetUserSessions(store, u, now)
    IN (isInitialized /\ cachePtr # "null" /\ members # {}) =>
         /\ got.status = 200
         /\ listed.status = 200
         /\ \E k \in DOMAIN listed.sessions :
              /\ listed.sessions[k].id = s
              /\ listed.sessions[k].userId = got.session.userId
              /\ listed.sessions[k].memoryCount = got.session.memoryCount
              /\ listed.sessions[k].createdAt = got.session.createdAt
              /\ listed.sessions[k].lastActive = got.session.lastActive
         /\ got.session.userId = u
         /\ got.session.memoryCount = Cardinality(members)
         /\ \A i \in members : got.session.createdAt <= store[i].created_at
         /\ \A i \in members : got.session.lastActive >= store[i].created_at


\* C30: a DELETE of a session without confirm=true fails with 400
\* CONFIRMATION_REQUIRED whether or not the session exists or belongs to the
\* caller and whether or not the bridge is initialised, sends nothing to the
\* bridge and leaves the store as it is; the SDK's deleteSession sends
\* confirm=true exactly when its confirm argument is true
C30_DeleteNeedsConfirm ==
  /\ \A u \in Users, s \in SessionIds, confirm \in ConfirmInputs \ {"true"} :
       LET r == DeleteSession(store, u, s, confirm, now)
       IN /\ r.status = 400
          /\ r.code = "CONFIRMATION_REQUIRED"
          /\ r.log = <<>>
          /\ r.st = store
  /\ \A confirm \in BOOLEAN :
       (SdkConfirmParam(confirm) = "true") <=> confirm
  /\ \A u \in Users, s \in SessionIds :
       DeleteSession(store, u, s, SdkConfirmParam(FALSE), now).code
         = "CONFIRMATION_REQUIRED"
  /\ (lastResp.op \in {"deleteSession", "sdk.deleteSession"}
        /\ lastResp.code = "CONFIRMATION_REQUIRED") => lastResp.status = 400

\* C30 case: an unconfirmed delete sent by the SDK was refused with 400 while
\* a session with a live memory exists, owned by one user and not by the other,
\* and a session without memories exists too
C30_Witness ==
  /\ lastResp.op = "sdk.deleteSession"
  /\ lastResp.status = 400
  /\ lastResp.code = "CONFIRMATION_REQUIRED"
  /\ isInitialized /\ cachePtr # "null"
  /\ \E i \in DOMAIN store : store[i].live /\ store[i].user = "u1"
  /\ \E s \in SessionIds : LiveOfSession(store, s) = {}

====
